---- MODULE Spec2Model ----
(***************************************************************************)
(* Model of Dolphin/ProjectRio's PatchEngine (Source/Core/Core/            *)
(* PatchEngine.cpp): the patch-line codec, the two-source configuration    *)
(* merge, the speed-hack table, the stack-sanity gate and the per-frame    *)
(* applier.                                                                *)
(*                                                                         *)
(* A u32 is the pair <<hi, lo>> of its 16-bit halves, so that all          *)
(* arithmetic keeps its 32-bit width.  Text is kept as text: a             *)
(* configuration line is a string and is scanned character by character.   *)
(***************************************************************************)
EXTENDS Integers, Sequences, FiniteSets, TLC

VARIABLES
  globalIni,      \* default game ini: [OnFrame, OnFrame_Enabled, OnFrame_Disabled]
  localIni,       \* local (user) game ini, same sections
  mergedIni,      \* merged game ini: its [Speedhacks] section, a sequence of [key, value]
  patches,        \* a caller-owned std::vector<Patch> handed to Load/SavePatchSection
  s_on_frame,     \* static std::vector<Patch> s_on_frame
  s_speed_hacks,  \* static std::map<u32, int> s_speed_hacks, a set of [address, cycles]
  mem,            \* guest memory, one byte per address 0 .. MemSize-1
  gpr1,           \* GPR(1), the stack pointer
  msr_dr,         \* MSR.DR
  msr_ir,         \* MSR.IR
  tagSetActive,   \* Core::isTagSetActive()
  ret,            \* what the last ApplyFramePatches returned ("none" before any call)
  events,         \* what the last ApplyFramePatches did, in order
  ret_history,    \* what the last two ApplyFramePatches calls returned, oldest first
  input_line,     \* a patch line handed to DeserializeLine
  decoded,        \* what the last DeserializeLine(input_line) returned: <<>> or <<entry>>
  encoded,        \* what the last SerializeLine returned ("" before any call)
  s_update_triggered,  \* bool s_update_triggered (AutoUpdate.cpp)
  platform,       \* the platform the process was built for
  updater,        \* what the process did with the updater so far, in order
  reloc_updater,  \* whether the relocated copy of the updater exists on disk
  calls,          \* the number of TriggerUpdate calls so far
  op              \* the operation that produced this state

vars == <<globalIni, localIni, mergedIni, patches, s_on_frame, s_speed_hacks,
          mem, gpr1, msr_dr, msr_ir, tagSetActive, ret, events, ret_history,
          input_line, decoded, encoded,
          s_update_triggered, platform, updater, reloc_updater, calls, op>>

iniVars   == <<globalIni, localIni, mergedIni>>
cpuVars   == <<mem, gpr1, msr_dr, msr_ir, tagSetActive>>
frameVars == <<ret, events, ret_history>>
codecVars == <<input_line, decoded, encoded>>
updVars   == <<s_update_triggered, platform, updater, reloc_updater, calls>>

-----------------------------------------------------------------------------
(* Bounds of the model *)

\* TriggerUpdate calls made in one process
MaxCalls == 4

\* bytes of guest RAM, at guest addresses 0 .. MemSize-1
MemSize == 16
\* lines of the [OnFrame] sections of the two configuration sources together
MaxLines == 4
\* patches s_on_frame may hold when LoadPatches is called once more
MaxLoaded == 3

-----------------------------------------------------------------------------
(* 32-bit unsigned integers *)

Half == 65536

U32(n) == <<n \div Half, n % Half>>

U32Less(a, b) == a[1] < b[1] \/ (a[1] = b[1] /\ a[2] < b[2])

U32LessEq(a, b) == a = b \/ U32Less(a, b)

\* a + n modulo 2^32, for a small n
U32Add(a, n) ==
  LET l == a[2] + n
  IN  IF l < Half THEN <<a[1], l>> ELSE <<(a[1] + 1) % Half, l - Half>>

\* static_cast<u8>(v), static_cast<u16>(v)
CastU8(v) == <<0, v[2] % 256>>
CastU16(v) == <<0, v[2]>>

-----------------------------------------------------------------------------
(* Text *)

Char(s, i) == SubSeq(s, i, i)

\* std::string::find(c): the first position of c in s, 0 when there is none
RECURSIVE FindFrom(_, _, _)
FindFrom(s, c, i) ==
  IF i > Len(s) THEN 0
  ELSE IF Char(s, i) = c THEN i
  ELSE FindFrom(s, c, i + 1)

Find(s, c) == FindFrom(s, c, 1)

\* SplitString(str, delim): the fields between the delimiters
RECURSIVE SplitString(_, _)
SplitString(str, delim) ==
  LET k == Find(str, delim)
  IN  IF k = 0 THEN <<str>>
      ELSE <<SubSeq(str, 1, k - 1)>> \o SplitString(SubSeq(str, k + 1, Len(str)), delim)

UpperDigits == "0123456789ABCDEF"

\* the value of a digit character, 99 for any other character
DigitValue(c) ==
  CASE c = "0" -> 0 [] c = "1" -> 1 [] c = "2" -> 2 [] c = "3" -> 3 [] c = "4" -> 4
    [] c = "5" -> 5 [] c = "6" -> 6 [] c = "7" -> 7 [] c = "8" -> 8 [] c = "9" -> 9
    [] c \in {"a", "A"} -> 10 [] c \in {"b", "B"} -> 11 [] c \in {"c", "C"} -> 12
    [] c \in {"d", "D"} -> 13 [] c \in {"e", "E"} -> 14 [] c \in {"f", "F"} -> 15
    [] OTHER -> 99

\* digits s[i..] in the given base, accumulated on acc; <<>> on a bad digit or
\* when the value leaves 32 bits, <<value>> otherwise
RECURSIVE ParseDigits(_, _, _, _)
ParseDigits(s, i, base, acc) ==
  IF i > Len(s) THEN <<acc>>
  ELSE LET d == DigitValue(Char(s, i))
           l == acc[2] * base + d
           h == acc[1] * base + (l \div Half)
       IN  IF d >= base \/ h >= Half THEN <<>>
           ELSE ParseDigits(s, i + 1, base, <<h, l % Half>>)

\* TryParse(str, u32*): an integer literal in base 0 (0x.. hex, 0.. octal, decimal)
TryParse(str) ==
  IF str = "" THEN <<>>
  ELSE IF Len(str) >= 2 /\ SubSeq(str, 1, 2) \in {"0x", "0X"}
       THEN (IF Len(str) = 2 THEN <<>> ELSE ParseDigits(str, 3, 16, <<0, 0>>))
  ELSE IF Char(str, 1) = "0" THEN ParseDigits(str, 2, 8, <<0, 0>>)
  ELSE ParseDigits(str, 1, 10, <<0, 0>>)

HexChar(d) == Char(UpperDigits, d + 1)

Hex4(n) ==
  HexChar(n \div 4096) \o HexChar((n \div 256) % 16) \o HexChar((n \div 16) % 16)
    \o HexChar(n % 16)

\* fmt "0x{:08X}"
Hex8(v) == "0x" \o Hex4(v[1]) \o Hex4(v[2])

-----------------------------------------------------------------------------
(* Entry codec *)

s_patch_type_strings == <<"byte", "word", "dword">>

Patch8Bit == 0
Patch16Bit == 1
Patch32Bit == 2

PatchTypeAsString(type) == s_patch_type_strings[type + 1]

\* a default-constructed PatchEntry
PatchEntry ==
  [type |-> Patch8Bit, address |-> <<0, 0>>, value |-> <<0, 0>>,
   comparand |-> <<0, 0>>, conditional |-> FALSE]

\* a decoder that takes a line whose fourth field fails to parse as unconditional
DeserializeLine_IgnoreBadComparand(line0) ==
  LET loc == Find(line0, "=")
      line == IF loc # 0
              THEN SubSeq(line0, 1, loc - 1) \o ":" \o SubSeq(line0, loc + 1, Len(line0))
              ELSE line0
      items == SplitString(line, ":")
  IN  IF Len(items) < 3 THEN <<>>
      ELSE LET address == TryParse(items[1])
               value == TryParse(items[3])
               comparand == IF Len(items) >= 4 THEN TryParse(items[4]) ELSE <<>>
               iter == {i \in 1..Len(s_patch_type_strings) :
                          s_patch_type_strings[i] = items[2]}
           IN  IF address = <<>> THEN <<>>
               ELSE IF value = <<>> THEN <<>>
               ELSE IF iter = {} THEN <<>>
               ELSE <<[type |-> (CHOOSE i \in iter : TRUE) - 1,
                       address |-> address[1],
                       value |-> value[1],
                       comparand |-> IF comparand # <<>> THEN comparand[1]
                                     ELSE PatchEntry.comparand,
                       conditional |-> comparand # <<>>]>>

\* std::optional<PatchEntry>: <<>> is std::nullopt, <<e>> holds e
DeserializeLine(line0) ==
  LET loc == Find(line0, "=")
      line == IF loc # 0
              THEN SubSeq(line0, 1, loc - 1) \o ":" \o SubSeq(line0, loc + 1, Len(line0))
              ELSE line0
      items == SplitString(line, ":")
  IN  IF Len(items) < 3 THEN <<>>
      ELSE LET address == TryParse(items[1])
               value == TryParse(items[3])
               comparand == IF Len(items) >= 4 THEN TryParse(items[4]) ELSE <<>>
               iter == {i \in 1..Len(s_patch_type_strings) :
                          s_patch_type_strings[i] = items[2]}
           IN  IF address = <<>> THEN <<>>
               ELSE IF value = <<>> THEN <<>>
               ELSE IF Len(items) >= 4 /\ comparand = <<>> THEN <<>>
               ELSE IF iter = {} THEN <<>>
               ELSE <<[type |-> (CHOOSE i \in iter : TRUE) - 1,
                       address |-> address[1],
                       value |-> value[1],
                       comparand |-> IF Len(items) >= 4 THEN comparand[1]
                                     ELSE PatchEntry.comparand,
                       conditional |-> Len(items) >= 4]>>

\* an encoder that never writes the comparand
SerializeLine_NoComparand(entry) ==
  Hex8(entry.address) \o ":" \o PatchTypeAsString(entry.type) \o ":" \o Hex8(entry.value)

SerializeLine(entry) ==
  IF entry.conditional
  THEN Hex8(entry.address) \o ":" \o PatchTypeAsString(entry.type) \o ":"
         \o Hex8(entry.value) \o ":" \o Hex8(entry.comparand)
  ELSE Hex8(entry.address) \o ":" \o PatchTypeAsString(entry.type) \o ":"
         \o Hex8(entry.value)

-----------------------------------------------------------------------------
(* Config merger *)

\* a default-constructed Patch
Patch ==
  [name |-> "", entries |-> <<>>, enabled |-> FALSE, default_enabled |-> FALSE,
   user_defined |-> FALSE]

\* an IniFile with empty patch sections
EmptyIni == [OnFrame |-> <<>>, OnFrame_Enabled |-> <<>>, OnFrame_Disabled |-> <<>>]

\* ScanLines flushing the previous patch without looking at its name
RECURSIVE ScanLines_FlushUnnamed(_, _, _, _)
ScanLines_FlushUnnamed(lines, i, isLocal, st) ==
  IF i > Len(lines) THEN st
  ELSE LET line == lines[i]
           cur == st.currentPatch
       IN  IF line = "" THEN ScanLines_FlushUnnamed(lines, i + 1, isLocal, st)
           ELSE IF Char(line, 1) = "$"
           THEN ScanLines_FlushUnnamed(lines, i + 1, isLocal,
                  [currentPatch |-> [cur EXCEPT !.entries = <<>>,
                                                !.name = SubSeq(line, 2, Len(line)),
                                                !.user_defined = isLocal],
                   patches |-> Append(st.patches, cur)])
           ELSE LET entry == DeserializeLine(line)
                IN  ScanLines_FlushUnnamed(lines, i + 1, isLocal,
                      [st EXCEPT !.currentPatch.entries =
                                   IF entry # <<>> THEN Append(@, entry[1]) ELSE @])

\* ScanLines giving up on the section at the first line that fails to decode
RECURSIVE ScanLines_AbortOnBadLine(_, _, _, _)
ScanLines_AbortOnBadLine(lines, i, isLocal, st) ==
  IF i > Len(lines) THEN st
  ELSE LET line == lines[i]
           cur == st.currentPatch
       IN  IF line = "" THEN ScanLines_AbortOnBadLine(lines, i + 1, isLocal, st)
           ELSE IF Char(line, 1) = "$"
           THEN ScanLines_AbortOnBadLine(lines, i + 1, isLocal,
                  [currentPatch |-> [cur EXCEPT !.entries = <<>>,
                                                !.name = SubSeq(line, 2, Len(line)),
                                                !.user_defined = isLocal],
                   patches |-> IF cur.name # "" THEN Append(st.patches, cur)
                               ELSE st.patches])
           ELSE LET entry == DeserializeLine(line)
                IN  IF entry = <<>> THEN st
                    ELSE ScanLines_AbortOnBadLine(lines, i + 1, isLocal,
                           [st EXCEPT !.currentPatch.entries = Append(@, entry[1])])

\* the loop over the lines of one source: st is [currentPatch, patches]
RECURSIVE ScanLines(_, _, _, _)
ScanLines(lines, i, isLocal, st) ==
  IF i > Len(lines) THEN st
  ELSE LET line == lines[i]
           cur == st.currentPatch
       IN  IF line = "" THEN ScanLines(lines, i + 1, isLocal, st)
           ELSE IF Char(line, 1) = "$"
           THEN ScanLines(lines, i + 1, isLocal,
                  [currentPatch |-> [cur EXCEPT !.entries = <<>>,
                                                !.name = SubSeq(line, 2, Len(line)),
                                                !.user_defined = isLocal],
                   patches |-> IF cur.name # "" THEN Append(st.patches, cur)
                               ELSE st.patches])
           ELSE LET entry == DeserializeLine(line)
                IN  ScanLines(lines, i + 1, isLocal,
                      [st EXCEPT !.currentPatch.entries =
                                   IF entry # <<>> THEN Append(@, entry[1]) ELSE @])

\* a trailing flush that, like the flush at a header, does not look at the entries
FlushTrailing_LikeHeaderFlush(st) ==
  IF st.currentPatch.name # ""
  THEN Append(st.patches, st.currentPatch)
  ELSE st.patches

\* the flush of the trailing patch after the loop
FlushTrailing(st) ==
  IF st.currentPatch.name # "" /\ st.currentPatch.entries # <<>>
  THEN Append(st.patches, st.currentPatch)
  ELSE st.patches

\* ReadEnabledOrDisabled: every "$name" line sets enabled of every code of that name
\* (the lines are those SavePatchSection writes, '$' followed by the name)
RECURSIVE ReadEnabledOrDisabled(_, _, _, _)
ReadEnabledOrDisabled(lines, i, enabled, codes) ==
  IF i > Len(lines) THEN codes
  ELSE LET line == lines[i]
       IN  IF line = "" \/ Char(line, 1) # "$"
           THEN ReadEnabledOrDisabled(lines, i + 1, enabled, codes)
           ELSE ReadEnabledOrDisabled(lines, i + 1, enabled,
                  [k \in 1..Len(codes) |->
                     IF SubSeq(line, 2, Len(line)) = codes[k].name
                     THEN [codes[k] EXCEPT !.enabled = enabled]
                     ELSE codes[k]])

ReadEnabledAndDisabled(ini, codes) ==
  ReadEnabledOrDisabled(ini.OnFrame_Disabled, 1, FALSE,
    ReadEnabledOrDisabled(ini.OnFrame_Enabled, 1, TRUE, codes))

\* the snapshot taken after the global pass
SnapshotDefaults(list) ==
  [k \in 1..Len(list) |-> [list[k] EXCEPT !.default_enabled = list[k].enabled]]

\* LoadPass taking the default_enabled snapshot after the local pass as well
LoadPass_SnapshotEveryPass(list, ini, isLocal) ==
  LET scanned == FlushTrailing(ScanLines(ini.OnFrame, 1, isLocal,
                                 [currentPatch |-> Patch, patches |-> list]))
  IN  SnapshotDefaults(ReadEnabledAndDisabled(ini, scanned))

\* one iteration of "for (const IniFile* ini : inis)"
LoadPass(list, ini, isLocal) ==
  LET scanned == FlushTrailing(ScanLines(ini.OnFrame, 1, isLocal,
                                 [currentPatch |-> Patch, patches |-> list]))
      overridden == ReadEnabledAndDisabled(ini, scanned)
  IN  IF isLocal THEN overridden ELSE SnapshotDefaults(overridden)

\* LoadPatchSection("OnFrame", &list, gIni, lIni): the list afterwards
LoadPatchSection(list, gIni, lIni) ==
  LoadPass(LoadPass(list, gIni, FALSE), lIni, TRUE)

\* SaveLines writing an override line for every patch, changed or not
RECURSIVE SaveLines_AlwaysOverride(_, _, _)
SaveLines_AlwaysOverride(list, i, acc) ==
  IF i > Len(list) THEN acc
  ELSE LET patch == list[i]
           header == "$" \o patch.name
           acc1 == [acc EXCEPT
                      !.lines_enabled = IF patch.enabled THEN Append(@, header) ELSE @,
                      !.lines_disabled = IF ~patch.enabled THEN Append(@, header) ELSE @]
       IN  IF ~patch.user_defined THEN SaveLines_AlwaysOverride(list, i + 1, acc1)
           ELSE SaveLines_AlwaysOverride(list, i + 1,
                  [acc1 EXCEPT !.lines =
                     Append(@, header)
                       \o [k \in 1..Len(patch.entries) |-> SerializeLine(patch.entries[k])]])

\* SaveLines writing the definition of every patch, user-defined or not
RECURSIVE SaveLines_EveryDefinition(_, _, _)
SaveLines_EveryDefinition(list, i, acc) ==
  IF i > Len(list) THEN acc
  ELSE LET patch == list[i]
           header == "$" \o patch.name
           differs == patch.enabled # patch.default_enabled
           acc1 == [acc EXCEPT
                      !.lines_enabled =
                         IF differs /\ patch.enabled THEN Append(@, header) ELSE @,
                      !.lines_disabled =
                         IF differs /\ ~patch.enabled THEN Append(@, header) ELSE @]
       IN  SaveLines_EveryDefinition(list, i + 1,
             [acc1 EXCEPT !.lines =
                Append(@, header)
                  \o [k \in 1..Len(patch.entries) |-> SerializeLine(patch.entries[k])]])

\* the three line lists SavePatchSection builds, patch by patch
RECURSIVE SaveLines(_, _, _)
SaveLines(list, i, acc) ==
  IF i > Len(list) THEN acc
  ELSE LET patch == list[i]
           header == "$" \o patch.name
           differs == patch.enabled # patch.default_enabled
           acc1 == [acc EXCEPT
                      !.lines_enabled =
                         IF differs /\ patch.enabled THEN Append(@, header) ELSE @,
                      !.lines_disabled =
                         IF differs /\ ~patch.enabled THEN Append(@, header) ELSE @]
       IN  IF ~patch.user_defined THEN SaveLines(list, i + 1, acc1)
           ELSE SaveLines(list, i + 1,
                  [acc1 EXCEPT !.lines =
                     Append(@, header)
                       \o [k \in 1..Len(patch.entries) |-> SerializeLine(patch.entries[k])]])

\* a save that writes the definitions but leaves the override sections as they were
SavePatchSection_KeepOverrides(local_ini, list) ==
  LET out == SaveLines(list, 1,
               [lines |-> <<>>, lines_enabled |-> <<>>, lines_disabled |-> <<>>])
  IN  [local_ini EXCEPT !.OnFrame = out.lines]

\* SavePatchSection(local_ini, list): local_ini afterwards
SavePatchSection(local_ini, list) ==
  LET out == SaveLines(list, 1,
               [lines |-> <<>>, lines_enabled |-> <<>>, lines_disabled |-> <<>>])
  IN  [local_ini EXCEPT !.OnFrame_Enabled = out.lines_enabled,
                        !.OnFrame_Disabled = out.lines_disabled,
                        !.OnFrame = out.lines]

-----------------------------------------------------------------------------
(* Speed-hack table *)

\* s_speed_hacks[address] = cycles
MapAssign(table, address, cycles) ==
  {r \in table : r.address # address} \cup {[address |-> address, cycles |-> cycles]}

\* a loader that gives up at the first row it cannot parse
RECURSIVE LoadSpeedhacks_StopAtBadRow(_, _, _)
LoadSpeedhacks_StopAtBadRow(rows, i, table) ==
  IF i > Len(rows) THEN table
  ELSE LET value == rows[i].value
           address == TryParse(rows[i].key)
           cycles == TryParse(value)
       IN  IF value # "BOGUS" /\ address # <<>> /\ cycles # <<>>
           THEN LoadSpeedhacks_StopAtBadRow(rows, i + 1,
                  MapAssign(table, address[1], cycles[1]))
           ELSE table

\* LoadSpeedhacks("Speedhacks", ini): the table afterwards
RECURSIVE LoadSpeedhacks(_, _, _)
LoadSpeedhacks(rows, i, table) ==
  IF i > Len(rows) THEN table
  ELSE LET value == rows[i].value
           address == TryParse(rows[i].key)
           cycles == TryParse(value)
       IN  IF value # "BOGUS" /\ address # <<>> /\ cycles # <<>>
           THEN LoadSpeedhacks(rows, i + 1, MapAssign(table, address[1], cycles[1]))
           ELSE LoadSpeedhacks(rows, i + 1, table)

GetSpeedhackCycles(table, addr) ==
  IF \E r \in table : r.address = addr
  THEN (CHOOSE r \in table : r.address = addr).cycles
  ELSE <<0, 0>>

-----------------------------------------------------------------------------
(* Guest memory: the host primitives of PowerPC:: *)

\* HostIsRAMAddress / HostIsInstructionRAMAddress: RAM lies at 0 .. MemSize-1
HostIsRAMAddress(address) == address[1] = 0 /\ address[2] < MemSize

HostIsInstructionRAMAddress(address) == HostIsRAMAddress(address)

\* the byte at address + k; a byte outside RAM reads as 0
ByteAt(m, address, k) ==
  LET a == U32Add(address, k)
  IN  IF HostIsRAMAddress(a) THEN m[a[2]] ELSE 0

\* m with byte b stored at address + k; a store outside RAM is dropped
StoreByte(m, address, k, b) ==
  LET a == U32Add(address, k)
  IN  IF HostIsRAMAddress(a) THEN [m EXCEPT ![a[2]] = b] ELSE m

\* big-endian reads
HostRead_U8(m, address) == <<0, ByteAt(m, address, 0)>>

HostRead_U16(m, address) == <<0, ByteAt(m, address, 0) * 256 + ByteAt(m, address, 1)>>

HostRead_U32(m, address) ==
  <<ByteAt(m, address, 0) * 256 + ByteAt(m, address, 1),
    ByteAt(m, address, 2) * 256 + ByteAt(m, address, 3)>>

HostRead_Instruction(m, address) == HostRead_U32(m, address)

\* big-endian writes of a value already cast to its width
HostWrite_U8(m, v, address) == StoreByte(m, address, 0, v[2] % 256)

HostWrite_U16(m, v, address) ==
  StoreByte(StoreByte(m, address, 0, (v[2] \div 256) % 256), address, 1, v[2] % 256)

HostWrite_U32(m, v, address) ==
  StoreByte(StoreByte(StoreByte(StoreByte(m,
    address, 0, v[1] \div 256), address, 1, v[1] % 256),
    address, 2, v[2] \div 256), address, 3, v[2] % 256)

-----------------------------------------------------------------------------
(* Applier *)

\* ApplyEntry comparing the 16-bit read with the comparand at its full width
ApplyEntry_WideComparand(fs, entry) ==
  LET addr == entry.address
      value == entry.value
      comparand == entry.comparand
  IN  CASE entry.type = Patch8Bit ->
             IF ~entry.conditional \/ HostRead_U8(fs.mem, addr) = CastU8(comparand)
             THEN [mem |-> HostWrite_U8(fs.mem, CastU8(value), addr),
                   events |-> Append(fs.events,
                     [what |-> "HostWrite_U8", address |-> addr, value |-> CastU8(value)])]
             ELSE fs
        [] entry.type = Patch16Bit ->
             IF ~entry.conditional \/ HostRead_U16(fs.mem, addr) = comparand
             THEN [mem |-> HostWrite_U16(fs.mem, CastU16(value), addr),
                   events |-> Append(fs.events,
                     [what |-> "HostWrite_U16", address |-> addr, value |-> CastU16(value)])]
             ELSE fs
        [] entry.type = Patch32Bit ->
             IF ~entry.conditional \/ HostRead_U32(fs.mem, addr) = comparand
             THEN [mem |-> HostWrite_U32(fs.mem, value, addr),
                   events |-> Append(fs.events,
                     [what |-> "HostWrite_U32", address |-> addr, value |-> value])]
             ELSE fs
        [] OTHER -> fs

\* one entry of an enabled patch: fs is [mem, events]
ApplyEntry(fs, entry) ==
  LET addr == entry.address
      value == entry.value
      comparand == entry.comparand
  IN  CASE entry.type = Patch8Bit ->
             IF ~entry.conditional \/ HostRead_U8(fs.mem, addr) = CastU8(comparand)
             THEN [mem |-> HostWrite_U8(fs.mem, CastU8(value), addr),
                   events |-> Append(fs.events,
                     [what |-> "HostWrite_U8", address |-> addr, value |-> CastU8(value)])]
             ELSE fs
        [] entry.type = Patch16Bit ->
             IF ~entry.conditional \/ HostRead_U16(fs.mem, addr) = CastU16(comparand)
             THEN [mem |-> HostWrite_U16(fs.mem, CastU16(value), addr),
                   events |-> Append(fs.events,
                     [what |-> "HostWrite_U16", address |-> addr, value |-> CastU16(value)])]
             ELSE fs
        [] entry.type = Patch32Bit ->
             IF ~entry.conditional \/ HostRead_U32(fs.mem, addr) = comparand
             THEN [mem |-> HostWrite_U32(fs.mem, value, addr),
                   events |-> Append(fs.events,
                     [what |-> "HostWrite_U32", address |-> addr, value |-> value])]
             ELSE fs
        [] OTHER -> fs

\* the entries of a patch applied last to first
RECURSIVE ApplyEntries_Reversed(_, _, _)
ApplyEntries_Reversed(fs, entries, k) ==
  IF k > Len(entries) THEN fs
  ELSE ApplyEntry(ApplyEntries_Reversed(fs, entries, k + 1), entries[k])

RECURSIVE ApplyEntries(_, _, _)
ApplyEntries(fs, entries, k) ==
  IF k > Len(entries) THEN fs
  ELSE ApplyEntries(ApplyEntry(fs, entries[k]), entries, k + 1)

\* ApplyPatches(list) on fs = [mem, events]
RECURSIVE ApplyPatchesFrom(_, _, _)
ApplyPatchesFrom(fs, list, i) ==
  IF i > Len(list) THEN fs
  ELSE IF list[i].enabled
       THEN ApplyPatchesFrom(ApplyEntries(fs, list[i].entries, 1), list, i + 1)
       ELSE ApplyPatchesFrom(fs, list, i + 1)

ApplyPatches(fs, list) == ApplyPatchesFrom(fs, list, 1)

\* IsStackSane with "next_SP < SP" for "next_SP <= SP"
IsStackSane_NotStrict(m, SP) ==
  IF ~HostIsRAMAddress(SP) THEN FALSE
  ELSE LET next_SP == HostRead_U32(m, SP)
       IN  IF U32Less(next_SP, SP) \/ ~HostIsRAMAddress(next_SP)
              \/ ~HostIsRAMAddress(U32Add(next_SP, 4))
           THEN FALSE
           ELSE LET address == HostRead_U32(m, U32Add(next_SP, 4))
                IN  HostIsInstructionRAMAddress(address)
                      /\ <<0, 0>> # HostRead_Instruction(m, address)

\* the heuristic gate
IsStackSane(m, SP) ==
  IF ~HostIsRAMAddress(SP) THEN FALSE
  ELSE LET next_SP == HostRead_U32(m, SP)
       IN  IF U32LessEq(next_SP, SP) \/ ~HostIsRAMAddress(next_SP)
              \/ ~HostIsRAMAddress(U32Add(next_SP, 4))
           THEN FALSE
           ELSE LET address == HostRead_U32(m, U32Add(next_SP, 4))
                IN  HostIsInstructionRAMAddress(address)
                      /\ <<0, 0>> # HostRead_Instruction(m, address)

\* where the collaborators leave their mark in guest memory
RioAddress == <<0, 12>>
RioValue == <<24576, 1>>
GeckoAddress == <<0, 14>>
GeckoValue == <<0, 170>>
ARAddress == <<0, 15>>
ARValue == <<0, 187>>

\* Core::RunRioFunctions, Gecko::RunCodeHandler, ActionReplay::RunAllActive on [mem, events]
RunRioFunctions(fs) ==
  [mem |-> HostWrite_U32(fs.mem, RioValue, RioAddress),
   events |-> Append(fs.events, [what |-> "RunRioFunctions"])]

RunCodeHandler(fs) ==
  [mem |-> HostWrite_U8(fs.mem, GeckoValue, GeckoAddress),
   events |-> Append(fs.events, [what |-> "RunCodeHandler"])]

RunAllActive(fs) ==
  [mem |-> HostWrite_U8(fs.mem, ARValue, ARAddress),
   events |-> Append(fs.events, [what |-> "RunAllActive"])]

\* ApplyFramePatches with "!MSR.DR && !MSR.IR" for "!MSR.DR || !MSR.IR"
FramePatches_BothFlags(m, SP, dr, ir, tagSet, list) ==
  IF (~dr /\ ~ir) \/ ~IsStackSane(m, SP)
  THEN [ret |-> FALSE, mem |-> m, events |-> <<>>]
  ELSE LET fs1 == RunCodeHandler(RunRioFunctions([mem |-> m, events |-> <<>>]))
           fs2 == IF ~tagSet THEN RunAllActive(ApplyPatches(fs1, list)) ELSE fs1
       IN  [ret |-> TRUE, mem |-> fs2.mem, events |-> fs2.events]

\* ApplyFramePatches without the isTagSetActive test
FramePatches_NoTagSetTest(m, SP, dr, ir, tagSet, list) ==
  IF ~dr \/ ~ir \/ ~IsStackSane(m, SP)
  THEN [ret |-> FALSE, mem |-> m, events |-> <<>>]
  ELSE LET fs1 == RunCodeHandler(RunRioFunctions([mem |-> m, events |-> <<>>]))
           fs2 == RunAllActive(ApplyPatches(fs1, list))
       IN  [ret |-> TRUE, mem |-> fs2.mem, events |-> fs2.events]

\* ApplyFramePatches applying the patches before the fixed-function injections
FramePatches_PatchesFirst(m, SP, dr, ir, tagSet, list) ==
  IF ~dr \/ ~ir \/ ~IsStackSane(m, SP)
  THEN [ret |-> FALSE, mem |-> m, events |-> <<>>]
  ELSE LET fs0 == [mem |-> m, events |-> <<>>]
           fs1 == IF ~tagSet THEN ApplyPatches(fs0, list) ELSE fs0
           fs2 == RunCodeHandler(RunRioFunctions(fs1))
           fs3 == IF ~tagSet THEN RunAllActive(fs2) ELSE fs2
       IN  [ret |-> TRUE, mem |-> fs3.mem, events |-> fs3.events]

\* ApplyFramePatches(): [ret, mem, events] of one call
FramePatches(m, SP, dr, ir, tagSet, list) ==
  IF ~dr \/ ~ir \/ ~IsStackSane(m, SP)
  THEN [ret |-> FALSE, mem |-> m, events |-> <<>>]
  ELSE LET fs1 == RunCodeHandler(RunRioFunctions([mem |-> m, events |-> <<>>]))
           fs2 == IF ~tagSet THEN RunAllActive(ApplyPatches(fs1, list)) ELSE fs1
       IN  [ret |-> TRUE, mem |-> fs2.mem, events |-> fs2.events]

-----------------------------------------------------------------------------
(* Engine lifecycle *)

\* LoadPatches(): [s_on_frame, s_speed_hacks] afterwards.  Neither container is
\* cleared first.  The Gecko codes it also activates are state of another engine.
LoadPatches(list, table, gIni, lIni, merged) ==
  [s_on_frame |-> LoadPatchSection(list, gIni, lIni),
   s_speed_hacks |-> LoadSpeedhacks(merged, 1, table)]

\* Shutdown(): [s_on_frame, s_speed_hacks] afterwards
Shutdown(list, table) == [s_on_frame |-> <<>>, s_speed_hacks |-> {}]

\* Reload(): [s_on_frame, s_speed_hacks] afterwards
Reload(list, table, gIni, lIni, merged) ==
  LET down == Shutdown(list, table)
  IN  LoadPatches(down.s_on_frame, down.s_speed_hacks, gIni, lIni, merged)

DoLoadPatches ==
  /\ Len(s_on_frame) <= MaxLoaded
  /\ LET r == LoadPatches(s_on_frame, s_speed_hacks, globalIni, localIni, mergedIni)
     IN  /\ s_on_frame' = r.s_on_frame
         /\ s_speed_hacks' = r.s_speed_hacks
  /\ op' = "LoadPatches"
  /\ UNCHANGED <<codecVars, updVars, iniVars, patches, cpuVars, frameVars>>

DoShutdown ==
  /\ LET r == Shutdown(s_on_frame, s_speed_hacks)
     IN  /\ s_on_frame' = r.s_on_frame
         /\ s_speed_hacks' = r.s_speed_hacks
  /\ op' = "Shutdown"
  /\ UNCHANGED <<codecVars, updVars, iniVars, patches, cpuVars, frameVars>>

DoReload ==
  /\ LET r == Reload(s_on_frame, s_speed_hacks, globalIni, localIni, mergedIni)
     IN  /\ s_on_frame' = r.s_on_frame
         /\ s_speed_hacks' = r.s_speed_hacks
  /\ op' = "Reload"
  /\ UNCHANGED <<codecVars, updVars, iniVars, patches, cpuVars, frameVars>>

-----------------------------------------------------------------------------
(* A caller-owned list: load the section, toggle patches, save the section *)

DoLoadPatchSection ==
  /\ patches' = LoadPatchSection(<<>>, globalIni, localIni)
  /\ op' = "LoadPatchSection"
  /\ UNCHANGED <<codecVars, updVars, iniVars, s_on_frame, s_speed_hacks, cpuVars, frameVars>>

\* the user toggles patch i of the list
SetEnabled(i) ==
  /\ op # "Init"
  /\ i \in 1..Len(patches)
  /\ patches' = [patches EXCEPT ![i].enabled = ~@]
  /\ op' = "SetEnabled"
  /\ UNCHANGED <<codecVars, updVars, iniVars, s_on_frame, s_speed_hacks, cpuVars, frameVars>>

DoSetEnabled == \E i \in 1..Len(patches) : SetEnabled(i)

DoSavePatchSection ==
  /\ op # "Init"
  /\ localIni' = SavePatchSection(localIni, patches)
  /\ op' = "SavePatchSection"
  /\ UNCHANGED <<codecVars, updVars, globalIni, mergedIni, patches, s_on_frame,
                 s_speed_hacks, cpuVars,
                 frameVars>>

-----------------------------------------------------------------------------
(* The per-frame entry point and its environment *)

\* the last ApplyFramePatches call declined
LastDeclined == ret_history # <<>> /\ ~ret_history[Len(ret_history)]

\* a cycle that keeps declining once the cycle before it has declined
DoApplyFramePatches_BackOff ==
  /\ LET r == IF LastDeclined
              THEN [ret |-> FALSE, mem |-> mem, events |-> <<>>]
              ELSE FramePatches(mem, gpr1, msr_dr, msr_ir, tagSetActive, s_on_frame)
     IN  /\ ret' = r.ret
         /\ mem' = r.mem
         /\ events' = r.events
         /\ ret_history' = IF Len(ret_history) = 2 THEN <<ret_history[2], r.ret>>
                            ELSE Append(ret_history, r.ret)
  /\ op' = "ApplyFramePatches"
  /\ UNCHANGED <<codecVars, updVars, iniVars, patches, s_on_frame, s_speed_hacks, gpr1,
                 msr_dr, msr_ir, tagSetActive>>

DoApplyFramePatches ==
  /\ LET r == FramePatches(mem, gpr1, msr_dr, msr_ir, tagSetActive, s_on_frame)
     IN  /\ ret' = r.ret
         /\ mem' = r.mem
         /\ events' = r.events
         /\ ret_history' = IF Len(ret_history) = 2 THEN <<ret_history[2], r.ret>>
                            ELSE Append(ret_history, r.ret)
  /\ op' = "ApplyFramePatches"
  /\ UNCHANGED <<codecVars, updVars, iniVars, patches, s_on_frame, s_speed_hacks, gpr1,
                 msr_dr, msr_ir, tagSetActive>>

\* the guest runs: the CPU enters or leaves an exception vector, the stack moves
StackPointers == {<<0, 0>>, <<0, 4>>, <<32768, 0>>}

CpuRuns ==
  /\ \E dr \in BOOLEAN, ir \in BOOLEAN, sp \in StackPointers :
       /\ <<dr, ir, sp>> # <<msr_dr, msr_ir, gpr1>>
       /\ msr_dr' = dr
       /\ msr_ir' = ir
       /\ gpr1' = sp
  /\ op' = "CpuRuns"
  /\ UNCHANGED <<codecVars, updVars, iniVars, patches, s_on_frame, s_speed_hacks, mem,
                 tagSetActive, frameVars>>

\* the host starts or ends an override session
SetTagSet ==
  /\ tagSetActive' = ~tagSetActive
  /\ op' = "SetTagSet"
  /\ UNCHANGED <<codecVars, updVars, iniVars, patches, s_on_frame, s_speed_hacks, mem,
                 gpr1, msr_dr, msr_ir,
                 frameVars>>

\* the configuration files change on disk
ConfigPool ==
  LET E1 == "0x0000000D:byte:0x000001FF"
      E2 == "0x00000006:word:0x00010203:0x00010000"
  IN  [g : {EmptyIni,
            [OnFrame |-> <<"$A", E1>>, OnFrame_Enabled |-> <<"$A">>,
             OnFrame_Disabled |-> <<>>]},
       l : {EmptyIni,
            [OnFrame |-> <<"$B", E2>>, OnFrame_Enabled |-> <<"$B">>,
             OnFrame_Disabled |-> <<"$A">>]},
       m : {<<>>,
            <<[key |-> "0x10", value |-> "5"]>>,
            <<[key |-> "0x10", value |-> "9"], [key |-> "0x14", value |-> "bad"],
              [key |-> "zz", value |-> "7"], [key |-> "0x18", value |-> "BOGUS"],
              [key |-> "0x1C", value |-> "0x20"]>>}]

ChangeConfig ==
  /\ \E c \in ConfigPool :
       /\ <<c.g, c.l, c.m>> # <<globalIni, localIni, mergedIni>>
       /\ globalIni' = c.g
       /\ localIni' = c.l
       /\ mergedIni' = c.m
  /\ op' = "ChangeConfig"
  /\ UNCHANGED <<codecVars, updVars, patches, s_on_frame, s_speed_hacks, cpuVars, frameVars>>

-----------------------------------------------------------------------------
(* Initial states *)

ZeroMem == [a \in 0..(MemSize - 1) |-> 0]

\* two stack frames at 0 and 4, the saved link register at 8, code at 12
MemImage(w0, w1, w2, w3) ==
  HostWrite_U32(HostWrite_U32(HostWrite_U32(HostWrite_U32(ZeroMem,
    w0, <<0, 0>>), w1, <<0, 4>>), w2, <<0, 8>>), w3, <<0, 12>>)

MemImages ==
  {MemImage(w0, w1, w2, w3) :
     w0 \in {<<0, 0>>, <<0, 4>>, <<0, MemSize - 4>>, <<65535, 65532>>},
     w1 \in {<<0, 0>>, <<0, 4>>},
     w2 \in {<<0, 12>>, <<32768, 12>>},
     w3 \in {<<0, 0>>, <<24576, 0>>}}

\* state the lifecycle and merge specifications leave alone
QuietCpu ==
  /\ mem = ZeroMem
  /\ gpr1 = <<0, 0>>
  /\ msr_dr = TRUE
  /\ msr_ir = TRUE
  /\ tagSetActive = FALSE
  /\ ret = "none"
  /\ events = <<>>
  /\ ret_history = <<>>

\* no line has been decoded or encoded
QuietCodec ==
  /\ input_line = ""
  /\ decoded = <<>>
  /\ encoded = ""

\* no update has been triggered
QuietUpdater ==
  /\ s_update_triggered = FALSE
  /\ platform = "other"
  /\ updater = <<>>
  /\ reloc_updater = FALSE
  /\ calls = 0

\* the lines the [OnFrame] sections are written with: the default ini ships
\* patch A, the user's ini may redefine A and define B
GlobalLinePool == {"$A", "0x0000000D:byte:0x000001FF"}

LocalLinePool == {"$A", "$B", "0x0000000D:byte:0x000001FF"}

\* sequences over S of length at most n
SeqUpTo(S, n) == UNION {[1..k -> S] : k \in 0..n}

\* [OnFrame_Enabled, OnFrame_Disabled] of the default ini and of the user's ini
GlobalOverrides ==
  {[e |-> <<>>, d |-> <<>>], [e |-> <<"$A">>, d |-> <<>>], [e |-> <<"$A">>, d |-> <<"$A">>]}

LocalOverrides ==
  {[e |-> <<>>, d |-> <<>>], [e |-> <<"$A">>, d |-> <<>>], [e |-> <<>>, d |-> <<"$A">>]}

\* the merge: the two sources hold at most MaxLines lines together
InitMerge ==
  /\ \E gl \in SeqUpTo(GlobalLinePool, MaxLines), ll \in SeqUpTo(LocalLinePool, MaxLines) :
       /\ Len(gl) + Len(ll) <= MaxLines
       /\ \E go \in GlobalOverrides, lo \in LocalOverrides :
            /\ globalIni = [OnFrame |-> gl, OnFrame_Enabled |-> go.e,
                            OnFrame_Disabled |-> go.d]
            /\ localIni = [OnFrame |-> ll, OnFrame_Enabled |-> lo.e,
                           OnFrame_Disabled |-> lo.d]
  /\ mergedIni = <<>>
  /\ patches = <<>>
  /\ s_on_frame = <<>>
  /\ s_speed_hacks = {}
  /\ QuietCpu
  /\ QuietCodec
  /\ QuietUpdater
  /\ op = "Init"

NextMerge == DoLoadPatchSection \/ DoSetEnabled \/ DoSavePatchSection

SpecMerge == InitMerge /\ [][NextMerge]_vars

\* the lifecycle: the engine is constructed empty
InitLife ==
  /\ \E c \in ConfigPool : globalIni = c.g /\ localIni = c.l /\ mergedIni = c.m
  /\ patches = <<>>
  /\ s_on_frame = <<>>
  /\ s_speed_hacks = {}
  /\ QuietCpu
  /\ QuietCodec
  /\ QuietUpdater
  /\ op = "Init"

NextLife == DoLoadPatches \/ DoReload \/ DoShutdown \/ ChangeConfig

SpecLife == InitLife /\ [][NextLife]_vars

\* the patch lists the frame specification starts from
FrameEntry(type, address, value, conditional, comparand) ==
  [type |-> type, address |-> address, value |-> value, comparand |-> comparand,
   conditional |-> conditional]

FramePatch(name, enabled, entries) ==
  [name |-> name, entries |-> entries, enabled |-> enabled, default_enabled |-> enabled,
   user_defined |-> FALSE]

EByte == FrameEntry(Patch8Bit, <<0, 13>>, <<0, 511>>, FALSE, <<0, 0>>)
ECondByte == FrameEntry(Patch8Bit, <<0, 13>>, <<0, 7>>, TRUE, <<0, 767>>)
EWord == FrameEntry(Patch16Bit, <<0, 10>>, <<3, 12>>, FALSE, <<0, 0>>)
ECondWord == FrameEntry(Patch16Bit, <<0, 6>>, <<1, 515>>, TRUE, <<1, 0>>)
EDword == FrameEntry(Patch32Bit, <<0, 12>>, <<0, 0>>, FALSE, <<0, 0>>)
ECondDword == FrameEntry(Patch32Bit, <<0, 4>>, <<0, 1>>, TRUE, <<0, 0>>)
EUnknown == FrameEntry(3, <<0, 5>>, <<0, 9>>, FALSE, <<0, 0>>)

FramePatchLists ==
  {<<>>,
   <<FramePatch("A", TRUE, <<EByte, ECondByte>>)>>,
   <<FramePatch("A", TRUE, <<ECondByte, EByte>>)>>,
   <<FramePatch("A", TRUE, <<ECondDword, EWord>>), FramePatch("B", FALSE, <<EDword>>)>>,
   <<FramePatch("A", TRUE, <<ECondWord, EUnknown>>), FramePatch("B", TRUE, <<EDword>>)>>,
   <<FramePatch("A", FALSE, <<EByte>>), FramePatch("B", TRUE, <<ECondWord, ECondDword>>)>>}

\* the frame cycle: patches are loaded, the guest is running
InitFrame ==
  /\ globalIni = EmptyIni
  /\ localIni = EmptyIni
  /\ mergedIni = <<>>
  /\ patches = <<>>
  /\ s_on_frame \in FramePatchLists
  /\ s_speed_hacks = {[address |-> <<0, 16>>, cycles |-> <<0, 5>>]}
  /\ mem \in MemImages
  /\ gpr1 = <<0, 0>>
  /\ msr_dr = TRUE
  /\ msr_ir = TRUE
  /\ tagSetActive = FALSE
  /\ ret = "none"
  /\ events = <<>>
  /\ ret_history = <<>>
  /\ QuietCodec
  /\ QuietUpdater
  /\ op = "Init"

NextFrame == DoApplyFramePatches \/ CpuRuns \/ SetTagSet

SpecFrame == InitFrame /\ [][NextFrame]_vars

\* the line handling: both sources are written with decodable and undecodable lines
SectionLinePool ==
  {"$A", "0x0000000D:byte:0x000001FF", "13:byte", "1:qword:2", ""}

InitLines ==
  /\ \E gl \in SeqUpTo(SectionLinePool, MaxLines), ll \in SeqUpTo(SectionLinePool, MaxLines) :
       /\ Len(gl) + Len(ll) <= MaxLines
       /\ globalIni = [EmptyIni EXCEPT !.OnFrame = gl]
       /\ localIni = [EmptyIni EXCEPT !.OnFrame = ll]
  /\ mergedIni = <<>>
  /\ patches = <<>>
  /\ s_on_frame = <<>>
  /\ s_speed_hacks = {}
  /\ QuietCpu
  /\ QuietCodec
  /\ QuietUpdater
  /\ op = "Init"

NextLines == DoLoadPatchSection

SpecLines == InitLines /\ [][NextLines]_vars

-----------------------------------------------------------------------------
(* The entry codec on its own: one line is decoded, the entry is encoded *)

DoDeserializeLine ==
  /\ decoded' = DeserializeLine(input_line)
  /\ op' = "DeserializeLine"
  /\ UNCHANGED <<input_line, encoded, updVars, iniVars, patches, s_on_frame, s_speed_hacks,
                 cpuVars, frameVars>>

\* SerializeLine(DeserializeLine(line).value())
DoSerializeLine ==
  /\ decoded # <<>>
  /\ encoded' = SerializeLine(decoded[1])
  /\ op' = "SerializeLine"
  /\ UNCHANGED <<input_line, decoded, updVars, iniVars, patches, s_on_frame, s_speed_hacks,
                 cpuVars, frameVars>>

\* the fields lines are written with
AddressFields == {"0x0000000D", "0x0000000d", "13", "zz"}

TypeFields == {"byte", "word", "dword", "Byte"}

ValueFields == {"0x000001FF", "0x000001ff", "0777", "0x1FFFFFFFF"}

\* what follows the value: nothing, a comparand, or more
Tails == {"", ":0x00000300", ":0x0000000a", "=0x00000300", ":x", ":1:2", ":1:x"}

ShortLines == {"0x0000000D", "0x0000000D:byte", "0x0000000D=byte", "byte:0x000001FF"}

LinePool ==
  ShortLines \cup
  {a \o sep \o t \o ":" \o v \o tail :
     a \in AddressFields, sep \in {":", "="}, t \in TypeFields, v \in ValueFields,
     tail \in Tails}

InitCodec ==
  /\ input_line \in LinePool
  /\ decoded = <<>>
  /\ encoded = ""
  /\ globalIni = EmptyIni
  /\ localIni = EmptyIni
  /\ mergedIni = <<>>
  /\ patches = <<>>
  /\ s_on_frame = <<>>
  /\ s_speed_hacks = {}
  /\ QuietCpu
  /\ QuietUpdater
  /\ op = "Init"

NextCodec == DoDeserializeLine \/ DoSerializeLine

SpecCodec == InitCodec /\ [][NextCodec]_vars

-----------------------------------------------------------------------------
(* The update trigger (Source/Core/UICommon/AutoUpdate.cpp) *)

\* OS_SUPPORTS_UPDATER is defined for _WIN32 and __APPLE__ builds
OS_SUPPORTS_UPDATER(plat) == plat \in {"win32", "apple"}

\* the updater_flags TriggerUpdate builds from its arguments
UpdaterFlags(info, restart_mode) ==
  [this_manifest_url |-> info.this_manifest_url,
   next_manifest_url |-> info.next_manifest_url,
   content_store_url |-> info.content_store_url,
   parent_pid |-> "pid",
   install_base_path |-> "exe_directory",
   log_file |-> "logs/Updater.log",
   binary_to_restart |-> restart_mode = "RESTART_AFTER_UPDATE"]

\* a trigger that does not look at s_update_triggered
TriggerUpdate_NoFlagTest(triggered, plat, log, reloc, info, restart_mode, copied, started) ==
  IF ~OS_SUPPORTS_UPDATER(plat)
  THEN [s_update_triggered |-> TRUE, updater |-> log, reloc_updater |-> reloc]
  ELSE [s_update_triggered |-> TRUE,
        updater |-> log \o
          <<[what |-> IF plat = "apple" THEN "CopyDir" ELSE "Copy", done |-> copied],
            [what |-> "Launch", flags |-> UpdaterFlags(info, restart_mode),
             done |-> started]>>,
        reloc_updater |-> reloc \/ copied]

\* AutoUpdateChecker::TriggerUpdate(info, restart_mode): the flag, the log and the
\* relocated copy afterwards.  copied and started are what the file copy and the
\* process creation turn out to do; their failure is only logged.
TriggerUpdate(triggered, plat, log, reloc, info, restart_mode, copied, started) ==
  IF triggered
  THEN [s_update_triggered |-> triggered, updater |-> log, reloc_updater |-> reloc]
  ELSE IF ~OS_SUPPORTS_UPDATER(plat)
  THEN [s_update_triggered |-> TRUE, updater |-> log, reloc_updater |-> reloc]
  ELSE [s_update_triggered |-> TRUE,
        updater |-> log \o
          <<[what |-> IF plat = "apple" THEN "CopyDir" ELSE "Copy", done |-> copied],
            [what |-> "Launch", flags |-> UpdaterFlags(info, restart_mode),
             done |-> started]>>,
        reloc_updater |-> reloc \/ copied]

\* CleanupFromPreviousUpdate(): the relocated copy afterwards
CleanupFromPreviousUpdate(reloc) == FALSE

\* the releases a trigger is called with
NewVersions ==
  {[this_manifest_url |-> "m1", next_manifest_url |-> "m2", content_store_url |-> "s"],
   [this_manifest_url |-> "m1", next_manifest_url |-> "m3", content_store_url |-> "s"]}

RestartModes == {"NO_RESTART_AFTER_UPDATE", "RESTART_AFTER_UPDATE"}

DoTriggerUpdate ==
  /\ calls < MaxCalls
  /\ \E info \in NewVersions, restart_mode \in RestartModes, copied \in BOOLEAN,
        started \in BOOLEAN :
       LET r == TriggerUpdate(s_update_triggered, platform, updater, reloc_updater,
                              info, restart_mode, copied, started)
       IN  /\ s_update_triggered' = r.s_update_triggered
           /\ updater' = r.updater
           /\ reloc_updater' = r.reloc_updater
  /\ calls' = calls + 1
  /\ op' = "TriggerUpdate"
  /\ UNCHANGED <<platform, codecVars, iniVars, patches, s_on_frame, s_speed_hacks, cpuVars,
                 frameVars>>

\* AutoUpdateChecker::CheckForUpdate: removes the relocated copy, asks for the
\* latest release and reports it; the report changes no state of this file
DoCheckForUpdate ==
  /\ reloc_updater' = IF OS_SUPPORTS_UPDATER(platform)
                      THEN CleanupFromPreviousUpdate(reloc_updater)
                      ELSE reloc_updater
  /\ op' = "CheckForUpdate"
  /\ UNCHANGED <<s_update_triggered, platform, updater, calls, codecVars, iniVars, patches,
                 s_on_frame, s_speed_hacks, cpuVars, frameVars>>

\* a process starts: nothing is triggered, the build is for one of the platforms
InitUpdate ==
  /\ s_update_triggered = FALSE
  /\ platform \in {"win32", "apple", "other"}
  /\ updater = <<>>
  /\ reloc_updater \in BOOLEAN
  /\ calls = 0
  /\ globalIni = EmptyIni
  /\ localIni = EmptyIni
  /\ mergedIni = <<>>
  /\ patches = <<>>
  /\ s_on_frame = <<>>
  /\ s_speed_hacks = {}
  /\ QuietCpu
  /\ QuietCodec
  /\ op = "Init"

NextUpdate == DoTriggerUpdate \/ DoCheckForUpdate

SpecUpdate == InitUpdate /\ [][NextUpdate]_vars

-----------------------------------------------------------------------------
(* Properties of the frame cycle (SpecFrame) *)

WriteEvents == {"HostWrite_U8", "HostWrite_U16", "HostWrite_U32"}

\* the patch writes among a cycle's events
PatchWrites(evs) == SelectSeq(evs, LAMBDA e : e.what \in WriteEvents)

\* the gate, condition by condition
GateHolds ==
  /\ msr_dr
  /\ msr_ir
  /\ HostIsRAMAddress(gpr1)
  /\ LET next_SP == HostRead_U32(mem, gpr1)
     IN  /\ U32Less(gpr1, next_SP)
         /\ HostIsRAMAddress(next_SP)
         /\ HostIsRAMAddress(U32Add(next_SP, 4))
         /\ LET lr == HostRead_U32(mem, U32Add(next_SP, 4))
            IN  /\ HostIsInstructionRAMAddress(lr)
                /\ HostRead_Instruction(mem, lr) # <<0, 0>>

\* C1: a call of ApplyFramePatches made while MSR.DR is off, or MSR.IR is off, or the
\* stack-sanity check fails returns false, leaves guest memory, the patch list and
\* the speed-hack table as they were and invokes none of the external engines.
C1_DeclinedCycleMutatesNothing ==
  [][(op' = "ApplyFramePatches" /\ (~msr_dr \/ ~msr_ir \/ ~IsStackSane(mem, gpr1)))
       => /\ ret' = FALSE
          /\ mem' = mem
          /\ s_on_frame' = s_on_frame
          /\ s_speed_hacks' = s_speed_hacks
          /\ events' = <<>>]_vars

\* a call declined for a translation flag alone: the stack is sane, patches are loaded
C1_Witness ==
  /\ op = "ApplyFramePatches"
  /\ ret = FALSE
  /\ ~msr_dr
  /\ msr_ir
  /\ IsStackSane(mem, gpr1)
  /\ \E k \in 1..Len(s_on_frame) : s_on_frame[k].enabled

\* C2: ApplyFramePatches returns true, or changes guest memory, only from a state in
\* which both translation flags are on, SP is a RAM address, next_SP > SP with next_SP
\* and next_SP + 4 RAM addresses, and the word at next_SP + 4 is an instruction address
\* holding a non-zero instruction.
C2_AppliesOnlyWhenGateHolds ==
  [][(op' = "ApplyFramePatches" /\ (ret' = TRUE \/ mem' # mem)) => GateHolds]_vars

\* a call that returned true and wrote a patch entry
C2_Witness ==
  /\ op = "ApplyFramePatches"
  /\ ret = TRUE
  /\ PatchWrites(events) # <<>>

\* the entry semantics, byte by byte: the low w bytes of a value, the w bytes stored
\* at an address
BytesOf(v) == <<v[1] \div 256, v[1] % 256, v[2] \div 256, v[2] % 256>>

Truncated(v, w) == SubSeq(BytesOf(v), 5 - w, 4)

WidthOf(type) == CASE type = 0 -> 1 [] type = 1 -> 2 [] type = 2 -> 4 [] OTHER -> 0

StoredAt(m, address, w) == [k \in 1..w |-> m[address[2] + k - 1]]

EntryEffect(m, e) ==
  LET w == WidthOf(e.type)
  IN  IF w = 0 THEN m
      ELSE IF e.conditional /\ StoredAt(m, e.address, w) # Truncated(e.comparand, w) THEN m
      ELSE [a \in DOMAIN m |->
              IF a - e.address[2] \in 0..(w - 1)
              THEN Truncated(e.value, w)[a - e.address[2] + 1]
              ELSE m[a]]

\* the entries of the enabled patches of a list, in order
RECURSIVE EnabledEntries(_)
EnabledEntries(list) ==
  IF list = <<>> THEN <<>>
  ELSE (IF Head(list).enabled THEN Head(list).entries ELSE <<>>)
         \o EnabledEntries(Tail(list))

RECURSIVE EntriesEffect(_, _)
EntriesEffect(m, es) ==
  IF es = <<>> THEN m ELSE EntriesEffect(EntryEffect(m, Head(es)), Tail(es))

\* guest memory as the collaborators that run before the patches leave it
MemBeforePatches(m) ==
  RunCodeHandler(RunRioFunctions([mem |-> m, events |-> <<>>])).mem

\* C6: in a successful cycle every entry of an enabled patch acts on the memory its
\* predecessors left: a conditional entry stores its value, cut to its width, only if
\* the bytes stored at its address equal the comparand cut to that width, and
\* otherwise changes nothing; an unconditional entry always stores its value cut to
\* its width; an entry of no known width stores nothing.
C6_EntrySemantics ==
  [][(op' = "ApplyFramePatches" /\ ret' = TRUE /\ ~tagSetActive)
       => mem' = RunAllActive([mem |-> EntriesEffect(MemBeforePatches(mem),
                                                     EnabledEntries(s_on_frame)),
                               events |-> <<>>]).mem]_vars

\* a successful cycle in which a conditional 16-bit entry wrote (its comparand only
\* matches once cut to 16 bits) and an entry of unknown type was skipped
C6_Witness ==
  /\ op = "ApplyFramePatches"
  /\ ret = TRUE
  /\ ~tagSetActive
  /\ \E k \in 1..Len(s_on_frame) :
       /\ s_on_frame[k].enabled
       /\ s_on_frame[k].entries = <<ECondWord, EUnknown>>
  /\ \E j \in 1..Len(events) :
       events[j] = [what |-> "HostWrite_U16", address |-> <<0, 6>>, value |-> <<0, 515>>]
  /\ \A j \in 1..Len(events) :
       events[j].what \in WriteEvents => events[j].address # EUnknown.address

\* C7: a cycle that passes the gate while the override session is active returns true
\* and runs the fixed-function injections and the code handler, but writes no patch
\* entry and does not invoke the secondary engine; patch entries are written only in
\* cycles that pass the gate with no override session active.
C7_OverrideSessionSkipsPatches ==
  [][op' = "ApplyFramePatches"
       => /\ (GateHolds /\ tagSetActive)
               => /\ ret' = TRUE
                  /\ events' = <<[what |-> "RunRioFunctions"], [what |-> "RunCodeHandler"]>>
                  /\ mem' = MemBeforePatches(mem)
          /\ PatchWrites(events') # <<>> => (GateHolds /\ ~tagSetActive)]_vars

\* a successful cycle under an override session, with an enabled unconditional patch
C7_Witness ==
  /\ op = "ApplyFramePatches"
  /\ ret = TRUE
  /\ tagSetActive
  /\ events = <<[what |-> "RunRioFunctions"], [what |-> "RunCodeHandler"]>>
  /\ \E k \in 1..Len(s_on_frame) :
       s_on_frame[k].enabled /\ EDword \in {s_on_frame[k].entries[j] :
                                              j \in 1..Len(s_on_frame[k].entries)}

-----------------------------------------------------------------------------
(* Properties of the merge (SpecMerge, SpecLines) *)

Range(seq) == {seq[i] : i \in 1..Len(seq)}

Header(p) == "$" \o p.name

Headers(list) == [k \in 1..Len(list) |-> Header(list[k])]

IsHeaderLine(line) == line # "" /\ Char(line, 1) = "$"

NamesDistinct(list) ==
  \A i \in 1..Len(list), j \in 1..Len(list) : i # j => list[i].name # list[j].name

\* the enabled state the global source's override lists give a name
GlobalEnabled(h) ==
  h \in Range(globalIni.OnFrame_Enabled) /\ h \notin Range(globalIni.OnFrame_Disabled)

\* C3: after LoadPatchSection every patch the global source defines has
\* user_defined = false, default_enabled as the global Enabled/Disabled lists alone
\* decide, and enabled as the local Disabled/Enabled lists decide when they name it
\* (default_enabled otherwise).
C3_GlobalPatchDefaults ==
  op = "LoadPatchSection" =>
    LET n == Len(LoadPatchSection(<<>>, globalIni, EmptyIni))
    IN  /\ n <= Len(patches)
        /\ \A k \in 1..Len(patches) :
             IF k > n THEN patches[k].user_defined
             ELSE LET h == Header(patches[k])
                  IN  /\ ~patches[k].user_defined
                      /\ patches[k].default_enabled = GlobalEnabled(h)
                      /\ patches[k].enabled =
                           IF h \in Range(localIni.OnFrame_Disabled) THEN FALSE
                           ELSE IF h \in Range(localIni.OnFrame_Enabled) THEN TRUE
                           ELSE GlobalEnabled(h)

\* global patch A enabled by the global source and disabled by the local one
C3_Witness ==
  /\ op = "LoadPatchSection"
  /\ "$A" \in Range(globalIni.OnFrame_Enabled)
  /\ "$A" \notin Range(globalIni.OnFrame_Disabled)
  /\ "$A" \in Range(localIni.OnFrame_Disabled)
  /\ Len(patches) >= 1
  /\ patches[1].name = "A"
  /\ ~patches[1].enabled
  /\ patches[1].default_enabled
  /\ ~patches[1].user_defined

\* C4 as stated: after SavePatchSection a patch's name is in the Enabled or Disabled
\* override lines iff its enabled differs from its default_enabled, in the Enabled
\* lines exactly when enabled and in the Disabled lines exactly when not.
C4_OverrideLinesByName ==
  op = "SavePatchSection" =>
    \A k \in 1..Len(patches) :
      LET h == Header(patches[k])
          inE == h \in Range(localIni.OnFrame_Enabled)
          inD == h \in Range(localIni.OnFrame_Disabled)
      IN  /\ (inE \/ inD) <=> (patches[k].enabled # patches[k].default_enabled)
          /\ (inE \/ inD) => ((inE <=> patches[k].enabled) /\ (inD <=> ~patches[k].enabled))

\* C4 amended: SavePatchSection writes one Enabled line per patch that is enabled
\* against its default, one Disabled line per patch that is disabled against its
\* default and no line for a patch whose enabled equals its default_enabled, in list
\* order; when the names of the list are pairwise distinct this is the statement by
\* name.
C4_OverrideLinesPerPatch ==
  op = "SavePatchSection" =>
    /\ localIni.OnFrame_Enabled =
         Headers(SelectSeq(patches, LAMBDA q : q.enabled /\ ~q.default_enabled))
    /\ localIni.OnFrame_Disabled =
         Headers(SelectSeq(patches, LAMBDA q : ~q.enabled /\ q.default_enabled))
    /\ NamesDistinct(patches) => C4_OverrideLinesByName

\* a saved list with one patch enabled against its default and one left at its default
C4_Witness ==
  /\ op = "SavePatchSection"
  /\ \E i \in 1..Len(patches), j \in 1..Len(patches) :
       /\ patches[i].name # patches[j].name
       /\ patches[i].enabled /\ ~patches[i].default_enabled
       /\ patches[j].enabled = patches[j].default_enabled
       /\ Header(patches[i]) \in Range(localIni.OnFrame_Enabled)
       /\ Header(patches[j]) \notin
            Range(localIni.OnFrame_Enabled) \cup Range(localIni.OnFrame_Disabled)

\* patch k of the list is defined only in the local source, has an entry and is named
\* in no override line of either source
LocalOnly(k) ==
  LET h == Header(patches[k])
  IN  /\ patches[k].entries # <<>>
      /\ h \notin Range(globalIni.OnFrame)
      /\ h \notin Range(globalIni.OnFrame_Enabled) \cup Range(globalIni.OnFrame_Disabled)
      /\ h \notin Range(localIni.OnFrame_Enabled) \cup Range(localIni.OnFrame_Disabled)

\* lines holds the definition of p: its header, then its entries' lines in order
DefinitionIn(p, lines) ==
  \E j \in 1..Len(lines) :
    /\ lines[j] = Header(p)
    /\ j + Len(p.entries) <= Len(lines)
    /\ \A i \in 1..Len(p.entries) : lines[j + i] = SerializeLine(p.entries[i])

\* C8: a patch defined only in the local source, with an entry and named in no
\* override line, is loaded with user_defined = true and enabled = default_enabled,
\* and SavePatchSection of the loaded list writes its definition and no override
\* line for it; the definitions SavePatchSection writes are those of the
\* user-defined patches and no others.
C8_LocalOnlyPatch ==
  [][op' = "SavePatchSection"
       => /\ SelectSeq(localIni'.OnFrame, IsHeaderLine)
               = Headers(SelectSeq(patches, LAMBDA q : q.user_defined))
          /\ op = "LoadPatchSection"
               => \A k \in 1..Len(patches) :
                    LocalOnly(k)
                      => /\ patches[k].user_defined
                         /\ patches[k].enabled = patches[k].default_enabled
                         /\ DefinitionIn(patches[k], localIni'.OnFrame)
                         /\ Header(patches[k]) \notin
                              Range(localIni'.OnFrame_Enabled)
                                \cup Range(localIni'.OnFrame_Disabled)]_vars

\* a saved list with global patch A and local-only patch B: B's definition is written,
\* A's is not, and B has no override line
C8_Witness ==
  /\ op = "SavePatchSection"
  /\ Len(patches) = 2
  /\ patches[1].name = "A" /\ ~patches[1].user_defined /\ patches[1].entries # <<>>
  /\ patches[2].name = "B" /\ patches[2].user_defined /\ patches[2].entries # <<>>
  /\ patches[2].enabled = patches[2].default_enabled
  /\ localIni.OnFrame = <<"$B", SerializeLine(patches[2].entries[1])>>
  /\ localIni.OnFrame_Enabled = <<>>
  /\ localIni.OnFrame_Disabled = <<>>

\* the number of lines of the two [OnFrame] sections equal to h
HeaderCount(h) ==
  Cardinality({i \in 1..Len(globalIni.OnFrame) : globalIni.OnFrame[i] = h})
    + Cardinality({i \in 1..Len(localIni.OnFrame) : localIni.OnFrame[i] = h})

Decodable(lines) ==
  SelectSeq(lines, LAMBDA line : IsHeaderLine(line) \/ DeserializeLine(line) # <<>>)

\* C10: the list LoadPatchSection produces is the list it produces from the same
\* sections with every non-header line that fails to decode removed.
C10_BadLinesAreDropped ==
  op = "LoadPatchSection" =>
    patches = LoadPatchSection(<<>>,
                [globalIni EXCEPT !.OnFrame = Decodable(@)],
                [localIni EXCEPT !.OnFrame = Decodable(@)])

\* a patch whose entries surround a line that fails to decode: both are loaded
C10_Witness ==
  /\ op = "LoadPatchSection"
  /\ globalIni.OnFrame =
       <<"$A", "0x0000000D:byte:0x000001FF", "1:qword:2", "0x0000000D:byte:0x000001FF">>
  /\ Len(patches) = 1
  /\ Len(patches[1].entries) = 2

-----------------------------------------------------------------------------
(* Properties of the lifecycle (SpecLife) *)

\* C5 as stated: right after a Load or a Reload the patch list and the speed-hack
\* table are what one Load from the empty state produces from the current
\* configuration.
C5_LoadRebuilds ==
  op \in {"LoadPatches", "Reload"} =>
    /\ s_on_frame = LoadPatchSection(<<>>, globalIni, localIni)
    /\ s_speed_hacks = LoadSpeedhacks(mergedIni, 1, {})

-----------------------------------------------------------------------------
(* Properties of the speed-hack table (SpecLife) *)

\* a row both of whose fields parse
RowParses(row) == TryParse(row.key) # <<>> /\ TryParse(row.value) # <<>>

\* the positions of the rows that parse and whose key is the address
RowsFor(rows, address) ==
  {i \in 1..Len(rows) : RowParses(rows[i]) /\ TryParse(rows[i].key)[1] = address}

LastRowFor(rows, address) ==
  CHOOSE i \in RowsFor(rows, address) : \A j \in RowsFor(rows, address) : j <= i

\* the addresses looked up: every address a row of ConfigPool names, and one more
ProbeAddresses == {<<0, 0>>, <<0, 16>>, <<0, 20>>, <<0, 24>>, <<0, 28>>}

\* C11: an address with no row in the table looks up as 0; a Load or Reload gives
\* an address the cycles of its last row that parses, and for an address none of
\* whose rows parse it adds no row and leaves the lookup as it was (0 after the
\* Shutdown inside Reload), whatever the other rows of the section are.
C11_BadRowsAreDropped ==
  [][/\ \A a \in ProbeAddresses :
          (\A r \in s_speed_hacks' : r.address # a)
            => GetSpeedhackCycles(s_speed_hacks', a) = <<0, 0>>
     /\ op' \in {"LoadPatches", "Reload"} =>
          \A a \in ProbeAddresses :
            IF RowsFor(mergedIni, a) # {}
            THEN GetSpeedhackCycles(s_speed_hacks', a)
                   = TryParse(mergedIni[LastRowFor(mergedIni, a)].value)[1]
            ELSE /\ (\E r \in s_speed_hacks' : r.address = a)
                       <=> (op' = "LoadPatches" /\ \E r \in s_speed_hacks : r.address = a)
                 /\ GetSpeedhackCycles(s_speed_hacks', a)
                       = IF op' = "Reload" THEN <<0, 0>>
                         ELSE GetSpeedhackCycles(s_speed_hacks, a)]_vars

\* a section with rows that fail to parse between rows that parse has been loaded
C11_Witness ==
  /\ op = "Reload"
  /\ Len(mergedIni) = 5
  /\ TryParse(mergedIni[2].key) = <<<<0, 20>>>> /\ TryParse(mergedIni[2].value) = <<>>
  /\ GetSpeedhackCycles(s_speed_hacks, <<0, 20>>) = <<0, 0>>
  /\ GetSpeedhackCycles(s_speed_hacks, <<0, 16>>) = <<0, 9>>
  /\ GetSpeedhackCycles(s_speed_hacks, <<0, 28>>) = <<0, 32>>
  /\ GetSpeedhackCycles(s_speed_hacks, <<0, 0>>) = <<0, 0>>

-----------------------------------------------------------------------------
(* Properties of the entry codec (SpecCodec) *)

\* the line with its first '=' read as ':'
FirstEqualsAsColon(l) ==
  IF \E k \in 1..Len(l) : Char(l, k) = "="
  THEN LET k == CHOOSE k \in 1..Len(l) :
                  Char(l, k) = "=" /\ \A j \in 1..(k - 1) : Char(l, j) # "="
       IN  [j \in 1..Len(l) |-> IF j = k THEN ":" ELSE Char(l, j)]
  ELSE [j \in 1..Len(l) |-> Char(l, j)]

RECURSIVE Concat(_)
Concat(chars) == IF chars = <<>> THEN "" ELSE Head(chars) \o Concat(Tail(chars))

FieldsOf(l) == SplitString(Concat(FirstEqualsAsColon(l)), ":")

IsIntegerLiteral(field) == TryParse(field) # <<>>

\* C12: DeserializeLine returns nothing exactly for the lines with fewer than 3
\* fields, an address or value field that is no integer literal, a type field
\* other than byte, word, dword, or a fourth field that is no integer literal;
\* the entry it returns otherwise is conditional exactly when there is a fourth
\* field.
C12_DeserializeLineCases ==
  op \in {"DeserializeLine", "SerializeLine"} =>
    LET fields == FieldsOf(input_line)
        rejected == \/ Len(fields) < 3
                    \/ ~IsIntegerLiteral(fields[1])
                    \/ ~IsIntegerLiteral(fields[3])
                    \/ fields[2] \notin {"byte", "word", "dword"}
                    \/ (Len(fields) >= 4 /\ ~IsIntegerLiteral(fields[4]))
    IN  IF rejected THEN decoded = <<>>
        ELSE /\ decoded # <<>>
             /\ decoded[1].conditional = (Len(fields) >= 4)

\* a line written with the legacy separator and a comparand decodes to a
\* conditional entry
C12_Witness ==
  /\ op = "DeserializeLine"
  /\ input_line = "0x0000000D=byte:0x000001FF:0x00000300"
  /\ decoded # <<>>
  /\ decoded[1].conditional
  /\ decoded[1].comparand = <<0, 768>>

\* "0x" and 8 digits out of the given digit characters
IsHex8(field, digits) ==
  /\ Len(field) = 10
  /\ SubSeq(field, 1, 2) = "0x"
  /\ \A i \in 3..10 : Char(field, i) \in digits

\* "0xAAAAAAAA:<type>:0xVVVVVVVV" or "0xAAAAAAAA:<type>:0xVVVVVVVV:0xCCCCCCCC"
IsCanonicalLine(l, digits) ==
  LET fields == SplitString(l, ":")
  IN  /\ Len(fields) \in {3, 4}
      /\ fields[2] \in {"byte", "word", "dword"}
      /\ \A i \in {1, 3, 4} \cap (1..Len(fields)) : IsHex8(fields[i], digits)

UpperHexDigits == {Char(UpperDigits, i) : i \in 1..16}

HexDigits == UpperHexDigits \cup {"a", "b", "c", "d", "e", "f"}

\* C13 as stated: a line of the canonical shape, its numbers written with any 8
\* hex digits, is what SerializeLine returns for the entry decoded from it.
C13_RoundTrip ==
  op = "SerializeLine" /\ IsCanonicalLine(input_line, HexDigits) => encoded = input_line

\* C13: a line of the canonical shape whose numbers are written with the 8 digits
\* 0-9, A-F is what SerializeLine returns for the entry decoded from it,
\* comparand included.
C13_RoundTripUpperCase ==
  op = "SerializeLine" /\ IsCanonicalLine(input_line, UpperHexDigits)
    => encoded = input_line

\* a canonical conditional line has made the round trip
C13_Witness ==
  /\ op = "SerializeLine"
  /\ input_line = "0x0000000D:dword:0x000001FF:0x00000300"
  /\ decoded # <<>>
  /\ encoded = input_line

-----------------------------------------------------------------------------
(* Properties of the retried cycle (SpecFrame) *)

\* guest memory after a whole successful cycle with no override session
MemAfterCycle(m, list) ==
  RunAllActive([mem |-> EntriesEffect(MemBeforePatches(m), EnabledEntries(list)),
                events |-> <<>>]).mem

\* C14: a call of ApplyFramePatches made after a declined call, from a state in
\* which the gate holds, returns true and, with no override session active, leaves
\* guest memory as one successful cycle leaves the memory the declined calls found;
\* and a declined call leaves nothing behind but its return value.
C14_RetryAfterDecline ==
  [][op' = "ApplyFramePatches"
       => /\ (LastDeclined /\ GateHolds)
               => /\ ret' = TRUE
                  /\ ~tagSetActive => mem' = MemAfterCycle(mem, s_on_frame)
                  /\ tagSetActive => mem' = MemBeforePatches(mem)
          /\ ret' = FALSE
               => UNCHANGED <<mem, s_on_frame, s_speed_hacks, gpr1, msr_dr, msr_ir,
                              tagSetActive, patches, iniVars>>]_vars

\* a successful cycle right after a declined one, in which a patch entry was written
C14_Witness ==
  /\ op = "ApplyFramePatches"
  /\ ret_history = <<FALSE, TRUE>>
  /\ ret = TRUE
  /\ ~tagSetActive
  /\ PatchWrites(events) # <<>>

-----------------------------------------------------------------------------
(* Properties of the order within a cycle (SpecFrame) *)

\* the write an entry makes when it fires
WriteOf(e) ==
  [what |-> CASE e.type = 0 -> "HostWrite_U8" [] e.type = 1 -> "HostWrite_U16"
              [] OTHER -> "HostWrite_U32",
   address |-> e.address,
   value |-> CASE e.type = 0 -> <<0, e.value[2] % 256>> [] e.type = 1 -> <<0, e.value[2]>>
               [] OTHER -> e.value]

\* an entry of a known width fires on memory m when it is unconditional or the
\* bytes stored at its address are its comparand cut to its width
Fires(m, e) ==
  /\ WidthOf(e.type) # 0
  /\ \/ ~e.conditional
     \/ StoredAt(m, e.address, WidthOf(e.type)) = Truncated(e.comparand, WidthOf(e.type))

\* the writes a sequence of entries makes, one after the other, on memory m
RECURSIVE WritesOf(_, _)
WritesOf(m, es) ==
  IF es = <<>> THEN <<>>
  ELSE (IF Fires(m, Head(es)) THEN <<WriteOf(Head(es))>> ELSE <<>>)
         \o WritesOf(EntryEffect(m, Head(es)), Tail(es))

\* C15: the patch writes of a successful cycle are, in order, the writes of the
\* entries of the enabled patches taken patch by patch in list order and entry by
\* entry in entry order, each conditional entry compared against the memory the
\* entries before it left; a disabled patch contributes no write.
C15_WritesInListOrder ==
  [][(op' = "ApplyFramePatches" /\ ret' = TRUE /\ ~tagSetActive)
       => PatchWrites(events')
            = WritesOf(MemBeforePatches(mem), EnabledEntries(s_on_frame))]_vars

\* an unconditional byte write followed by a conditional entry on the same address
\* whose comparand is the byte just written: both wrote, in that order
C15_Witness ==
  /\ op = "ApplyFramePatches"
  /\ ret = TRUE
  /\ ~tagSetActive
  /\ s_on_frame = <<FramePatch("A", TRUE, <<EByte, ECondByte>>)>>
  /\ PatchWrites(events)
       = <<[what |-> "HostWrite_U8", address |-> <<0, 13>>, value |-> <<0, 255>>],
           [what |-> "HostWrite_U8", address |-> <<0, 13>>, value |-> <<0, 7>>]>>
  /\ mem[13] = 7

-----------------------------------------------------------------------------
(* Properties of the collaborator order (SpecFrame) *)

WriteWidth(w) ==
  CASE w.what = "HostWrite_U8" -> 1 [] w.what = "HostWrite_U16" -> 2 [] OTHER -> 4

\* the write covers the byte at guest address b
Covers(w, b) == w.address[1] = 0 /\ b - w.address[2] \in 0..(WriteWidth(w) - 1)

\* the byte the write stores at guest address b
ByteStored(w, b) == Truncated(w.value, WriteWidth(w))[b - w.address[2] + 1]

\* the bytes the secondary engine writes
ActiveBytes == {ARAddress[2]}

\* the bytes the fixed-function injections write
RioBytes == RioAddress[2]..(RioAddress[2] + 3)

\* C16: in a cycle that passes the gate the fixed-function injections run first,
\* the code handler second, and, with no override session active, the patch writes
\* come next and the secondary engine last; so every byte a patch wrote, the bytes
\* the fixed-function injections wrote included, holds what the last patch write
\* covering it stored, unless the secondary engine wrote it afterwards.
C16_CollaboratorOrder ==
  [][(op' = "ApplyFramePatches" /\ GateHolds)
       => /\ ret' = TRUE
          /\ events' = <<[what |-> "RunRioFunctions"], [what |-> "RunCodeHandler"]>>
                         \o (IF tagSetActive THEN <<>>
                             ELSE PatchWrites(events') \o <<[what |-> "RunAllActive"]>>)
          /\ LET ws == PatchWrites(events')
             IN  \A b \in (0..(MemSize - 1)) \ ActiveBytes :
                   \A k \in 1..Len(ws) :
                     (Covers(ws[k], b) /\ \A j \in (k + 1)..Len(ws) : ~Covers(ws[j], b))
                       => mem'[b] = ByteStored(ws[k], b)]_vars

\* an enabled patch wrote the word the fixed-function injections write, and its
\* value is what the cycle left there
C16_Witness ==
  /\ op = "ApplyFramePatches"
  /\ ret = TRUE
  /\ ~tagSetActive
  /\ events[1] = [what |-> "RunRioFunctions"]
  /\ \E k \in 3..(Len(events) - 1) :
       events[k] = [what |-> "HostWrite_U32", address |-> RioAddress, value |-> <<0, 0>>]
  /\ events[Len(events)] = [what |-> "RunAllActive"]
  /\ \A b \in RioBytes \ ActiveBytes : mem[b] = 0
  /\ \E b \in RioBytes \ ActiveBytes :
       RunRioFunctions([mem |-> ZeroMem, events |-> <<>>]).mem[b] # 0

-----------------------------------------------------------------------------
(* Properties of the two flush sites (SpecLines) *)

\* the position of the first header line after position i, Len(lines) + 1 if none
NextHeader(lines, i) ==
  IF \E j \in (i + 1)..Len(lines) : IsHeaderLine(lines[j])
  THEN CHOOSE j \in (i + 1)..Len(lines) :
         IsHeaderLine(lines[j]) /\ \A k \in (i + 1)..(j - 1) : ~IsHeaderLine(lines[k])
  ELSE Len(lines) + 1

\* the entries the lines decode to, in order
RECURSIVE EntriesIn(_)
EntriesIn(lines) ==
  IF lines = <<>> THEN <<>>
  ELSE (IF Head(lines) # "" /\ DeserializeLine(Head(lines)) # <<>>
        THEN <<DeserializeLine(Head(lines))[1]>> ELSE <<>>) \o EntriesIn(Tail(lines))

\* the patches one source contributes, from position i on: one per header line,
\* holding the entries up to the next header; the one under the last header only
\* if it has an entry
RECURSIVE PatchesFrom(_, _, _)
PatchesFrom(lines, i, isLocal) ==
  IF i > Len(lines) THEN <<>>
  ELSE IF ~IsHeaderLine(lines[i]) THEN PatchesFrom(lines, i + 1, isLocal)
  ELSE LET n == NextHeader(lines, i)
           es == EntriesIn(SubSeq(lines, i + 1, n - 1))
           name == SubSeq(lines[i], 2, Len(lines[i]))
       IN  (IF name # "" /\ (n <= Len(lines) \/ es # <<>>)
            THEN <<[name |-> name, entries |-> es, user_defined |-> isLocal]>>
            ELSE <<>>) \o PatchesFrom(lines, n, isLocal)

Definitions(list) ==
  [k \in 1..Len(list) |->
     [name |-> list[k].name, entries |-> list[k].entries,
      user_defined |-> list[k].user_defined]]

\* C17: each source contributes one patch per header line that another header
\* line follows, entries or not, and one for its last header line only if an entry
\* line follows it; the lines before the first header contribute no patch and
\* their entries belong to no patch.
C17_FlushAsymmetry ==
  op = "LoadPatchSection" =>
    Definitions(patches)
      = PatchesFrom(globalIni.OnFrame, 1, FALSE) \o PatchesFrom(localIni.OnFrame, 1, TRUE)

\* an entry line before the first header, a header followed by a header, and a
\* last header with no entry: only the patch of the first header is in the list,
\* without entries
C17_Witness ==
  /\ op = "LoadPatchSection"
  /\ globalIni.OnFrame = <<"0x0000000D:byte:0x000001FF", "$A", "$A">>
  /\ localIni.OnFrame = <<>>
  /\ Len(patches) = 1
  /\ patches[1].name = "A"
  /\ patches[1].entries = <<>>

-----------------------------------------------------------------------------
(* Properties of saving and loading again (SpecMerge) *)

\* C18 as stated: right after SavePatchSection has written the list into the
\* local source, LoadPatchSection from the same global source and that local
\* source produces the list that was saved.
C18_SaveThenLoad ==
  op = "SavePatchSection" => LoadPatchSection(<<>>, globalIni, localIni) = patches

\* the user-defined patches of a list, in order
UserDefined(list) == SelectSeq(list, LAMBDA patch : patch.user_defined)

\* the last user-defined patch, if any, has an entry
LastUserPatchHasEntry(list) ==
  UserDefined(list) # <<>> => UserDefined(list)[Len(UserDefined(list))].entries # <<>>

\* C18: when the names of the saved list are pairwise distinct and its last
\* user-defined patch, if it has one, has an entry, LoadPatchSection from the same
\* global source and the local source SavePatchSection wrote produces the list
\* that was saved: same patches, same order, same fields.
C18_SaveThenLoadDistinctNames ==
  (op = "SavePatchSection" /\ LastUserPatchHasEntry(patches) /\ NamesDistinct(patches))
    => LoadPatchSection(<<>>, globalIni, localIni) = patches

\* a shipped patch and a user-defined patch, both toggled against their defaults,
\* have been saved and load back as they were
C18_Witness ==
  /\ op = "SavePatchSection"
  /\ Len(patches) = 2
  /\ patches[1].name = "A" /\ ~patches[1].user_defined
  /\ patches[1].enabled # patches[1].default_enabled
  /\ patches[2].name = "B" /\ patches[2].user_defined
  /\ patches[2].enabled /\ patches[2].entries # <<>>
  /\ localIni.OnFrame = <<"$B", "0x0000000D:byte:0x000001FF">>
  /\ LoadPatchSection(<<>>, globalIni, localIni) = patches

-----------------------------------------------------------------------------
(* Properties of the update trigger (SpecUpdate) *)

Launches(log) == SelectSeq(log, LAMBDA e : e.what = "Launch")

Copies(log) == SelectSeq(log, LAMBDA e : e.what \in {"Copy", "CopyDir"})

\* C19 as stated: the updater is launched at most once; the first TriggerUpdate
\* call sets the flag and launches; every later call copies and launches
\* nothing; the flag is never reset.
C19_FirstCallLaunches ==
  [][/\ Len(Launches(updater')) <= 1
     /\ s_update_triggered => s_update_triggered'
     /\ op' = "TriggerUpdate" =>
          IF s_update_triggered
          THEN updater' = updater /\ reloc_updater' = reloc_updater
          ELSE s_update_triggered' /\ Len(Launches(updater')) = 1]_vars

\* C19: the updater is launched at most once; the first TriggerUpdate call sets
\* the flag and, in a build with OS_SUPPORTS_UPDATER, copies the updater once and
\* makes the one attempt to start it, and in any other build only sets the flag;
\* every later call copies and launches nothing; the flag is never reset.
C19_LaunchAtMostOnce ==
  [][/\ Len(Launches(updater')) <= 1
     /\ Len(Copies(updater')) <= 1
     /\ s_update_triggered => s_update_triggered'
     /\ op' = "TriggerUpdate" =>
          IF s_update_triggered
          THEN updater' = updater /\ reloc_updater' = reloc_updater
          ELSE /\ s_update_triggered'
               /\ Len(Launches(updater')) = IF OS_SUPPORTS_UPDATER(platform) THEN 1 ELSE 0
               /\ Len(Copies(updater')) = IF OS_SUPPORTS_UPDATER(platform) THEN 1 ELSE 0]_vars

\* TriggerUpdate has been called three times, the relocated copy has been removed
\* in between, and the updater was copied and launched once
C19_Witness ==
  /\ op = "TriggerUpdate"
  /\ calls = 3
  /\ s_update_triggered
  /\ OS_SUPPORTS_UPDATER(platform)
  /\ ~reloc_updater
  /\ Len(updater) = 2
  /\ updater[1].what = "Copy" /\ updater[1].done
  /\ updater[2].what = "Launch" /\ updater[2].done

====
